---- MODULE Spec2Model ----
(***************************************************************************)
(* scalability_graphs.py: a linear script that computes six numeric        *)
(* series from literal constants, draws two figures, saves each to a       *)
(* hardcoded path and prints a fixed summary.                              *)
(*                                                                         *)
(* The script's module-level names are the state; one action per section  *)
(* of the script moves the program counter pc forward.  The execution      *)
(* environment (does the output directory exist, can each output file be   *)
(* written, is the plotting backend interactive) is chosen in Init and     *)
(* never changes during a run.                                             *)
(*                                                                         *)
(* Floating point: blaze_cost is kept as an exact numerator over the       *)
(* common denominator CostDen (0.06 = RateNum/RateDen).  Every value the   *)
(* script computes from its literals is exact in this representation.      *)
(* np.inf is the record Infinity; a finite cost is Finite(n).              *)
(***************************************************************************)
EXTENDS Integers, Sequences, FiniteSets

VARIABLES
    pc,                     \* position of the script
    users,                  \* line 9
    operations_single_bus,  \* line 10
    buses,                  \* line 24
    operations_multi_bus,   \* line 26
    operations_range,       \* line 39
    spark_cost,             \* line 40
    blaze_cost,             \* line 41 (numerators over CostDen)
    load_scenarios,         \* line 53
    operations,             \* line 54
    colors,                 \* line 55
    status,                 \* line 56
    bars,                   \* line 58: heights of the bars of ax4
    ax4_texts,              \* lines 67-70: annotations added to ax4
    operations_breakdown,   \* line 82
    operations_before,      \* line 91
    bars_opt,               \* line 94: heights of the bars of ax6
    ax6_texts,              \* lines 102-105: annotations added to ax6
    files,                  \* output files written so far
    shown,                  \* figures displayed on screen so far
    stdout,                 \* lines printed so far
    error,                  \* the uncaught exception, "none" while running
    failedAt,               \* which savefig raised (0: none)
    printed,                \* how many of the findings statements have run
    dirExists,              \* environment: c:/xampp/htdocs/viscous exists
    canWrite,               \* environment: file n may be created/overwritten
    interactive             \* environment: the backend opens windows

series == <<users, operations_single_bus, buses, operations_multi_bus,
            operations_range, spark_cost, blaze_cost>>
table  == <<load_scenarios, operations, colors, status, bars, ax4_texts>>
fig2   == <<operations_breakdown, operations_before, bars_opt, ax6_texts>>
out    == <<files, shown, stdout, error, failedAt, printed>>
env    == <<dirExists, canWrite, interactive>>
vars   == <<pc, series, table, fig2, out, env>>

----------------------------------------------------------------------------
(* Helpers *)

Min(a, b) == IF a <= b THEN a ELSE b

Max(a, b) == IF a >= b THEN a ELSE b

----------------------------------------------------------------------------
(* Literals of the script *)

spark_limit == 50000

users_per_bus == 500

BusOps == 800

ReadsPerUser == 50

AdminOps == 200

FreeThreshold == 50000

RateNum == 6

RateDen == 100

PerOps == 100000

CostDen == RateDen * PerOps

LabelOffset == 1000

LabelOffsetOpt == 2000

UsersLiteral == <<0, 100, 200, 500, 800, 1000, 1500, 2000>>

BusesLiteral == <<1, 2, 3, 4, 5, 6, 7, 8>>

OperationsRangeLiteral == <<10000, 25000, 50000, 100000, 200000, 500000>>

LoadScenariosLiteral ==
    <<"1B+100U", "1B+500U", "1B+1000U", "2B+500U", "3B+1000U", "5B+2000U">>

OperationsLiteral == <<6000, 26000, 51000, 27000, 53000, 105000>>

ColorsLiteral == <<"green", "green", "orange", "green", "red", "red">>

\* the third scenario labelled like the second
StatusLiteral_safe == <<"Safe", "Safe", "Safe", "Safe", "Critical", "Critical">>

StatusLiteral == <<"Safe", "Safe", "Warning", "Safe", "Critical", "Critical">>

OperationsBreakdownLiteral == <<800, 400, 50000, 200, 144>>

\* a mistyped 'Current Optimization' value
OperationsBeforeLiteral_typo == <<150000, 61544, 25000>>

OperationsBeforeLiteral == <<150000, 51544, 25000>>

File1 == "c:/xampp/htdocs/viscous/backend_scalability_analysis.png"

File2 == "c:/xampp/htdocs/viscous/optimization_analysis.png"

----------------------------------------------------------------------------
(* Vectorised arithmetic of the script *)

\* np.inf and finite floats of the spark_cost array
Infinity == [inf |-> TRUE, num |-> 0]

Finite(n) == [inf |-> FALSE, num |-> n]

\* the admin term forgotten
computeSingleBusSeries_noadmin(u) ==
    [i \in DOMAIN u |-> BusOps + u[i] * ReadsPerUser]

\* a wrong per-user rate
computeSingleBusSeries_rate(u) ==
    [i \in DOMAIN u |-> BusOps + u[i] * 40 + AdminOps]

\* line 10: 800 + users * 50 + 200
computeSingleBusSeries(u) ==
    [i \in DOMAIN u |-> BusOps + u[i] * ReadsPerUser + AdminOps]

\* the parentheses forgotten: only the bus term is multiplied
computeMultiBusSeries_noparen(b, perBus) ==
    [i \in DOMAIN b |-> b[i] * BusOps + perBus * ReadsPerUser + AdminOps]

\* line 26: buses * (800 + users_per_bus * 50 + 200)
computeMultiBusSeries(b, perBus) ==
    [i \in DOMAIN b |-> b[i] * (BusOps + perBus * ReadsPerUser + AdminOps)]

\* a strict comparison at the threshold
computeSparkCost_strict(r) ==
    [i \in DOMAIN r |-> IF r[i] < FreeThreshold THEN Finite(0) ELSE Infinity]

\* line 40: np.where(operations_range <= 50000, 0, np.inf)
computeSparkCost(r) ==
    [i \in DOMAIN r |-> IF r[i] <= FreeThreshold THEN Finite(0) ELSE Infinity]

\* the clamp at zero forgotten
computeBlazeCost_noclamp(r) ==
    [i \in DOMAIN r |-> (r[i] - FreeThreshold) * RateNum]

\* line 41: np.maximum(0, (operations_range - 50000) * 0.06 / 100000),
\* as numerators over CostDen = RateDen * PerOps
computeBlazeCost(r) ==
    [i \in DOMAIN r |-> Max(0, (r[i] - FreeThreshold) * RateNum)]

\* f'{op:,}': the decimal groups of three digits, most significant first
RECURSIVE FormatThousands(_)
FormatThousands(n) ==
    IF n < 1000 THEN <<n>>
    ELSE Append(FormatThousands(n \div 1000), n % 1000)

\* zip(a, b, c) stops at the shortest argument
ZipLen3(a, b, c) == Min(Len(a), Min(Len(b), Len(c)))

ZipLen2(a, b) == Min(Len(a), Len(b))

----------------------------------------------------------------------------
(* Saving, showing, printing *)

\* the second path misspelt: its directory never exists
SaveError_path(n) ==
    IF ~dirExists \/ n = 2 THEN "FileNotFoundError"
    ELSE IF ~canWrite[n] THEN "PermissionError"
    ELSE "none"

\* plt.savefig(path): the exception the write raises in this environment
SaveError(n) ==
    IF ~dirExists THEN "FileNotFoundError"
    ELSE IF ~canWrite[n] THEN "PermissionError"
    ELSE "none"

\* the exception swallowed (try/except: pass around savefig)
AfterSave_swallow(err, next) == next

\* An exception nobody catches ends the script; otherwise it goes on
AfterSave(err, next) == IF err = "none" THEN next ELSE "failed"

\* lines 111-112: the two print calls before the findings, as output lines
ConfirmationLine == "Scalability analysis graphs generated successfully!"

HeaderLines == <<"", "Key Findings:">>

\* lines 113-117
KeyFindings ==
    << "1. Single bus can handle up to 800 users safely on Spark plan",
       "2. Multiple buses require careful user distribution",
       "3. 3+ buses with 1000+ users need Blaze plan",
       "4. Current optimizations reduce operations by ~66%",
       "5. Further optimizations could support 2000+ users on Spark plan" >>

\* the numbers the findings text states
Finding1Users == 800

Finding4Percent == 66

----------------------------------------------------------------------------
(* The script *)

Init ==
    /\ pc = "graph1"
    /\ users = <<>> /\ operations_single_bus = <<>>
    /\ buses = <<>> /\ operations_multi_bus = <<>>
    /\ operations_range = <<>> /\ spark_cost = <<>> /\ blaze_cost = <<>>
    /\ load_scenarios = <<>> /\ operations = <<>> /\ colors = <<>>
    /\ status = <<>> /\ bars = <<>> /\ ax4_texts = <<>>
    /\ operations_breakdown = <<>> /\ operations_before = <<>>
    /\ bars_opt = <<>> /\ ax6_texts = <<>>
    /\ files = {} /\ shown = 0 /\ stdout = <<>>
    /\ error = "none" /\ failedAt = 0 /\ printed = 0
    /\ dirExists \in BOOLEAN
    /\ canWrite \in [1..2 -> BOOLEAN]
    /\ interactive \in BOOLEAN

\* lines 8-21
Graph1 ==
    /\ pc = "graph1"
    /\ users' = UsersLiteral
    /\ operations_single_bus' = computeSingleBusSeries(UsersLiteral)
    /\ pc' = "graph2"
    /\ UNCHANGED <<buses, operations_multi_bus, operations_range, spark_cost,
                   blaze_cost, table, fig2, out, env>>

\* lines 23-36
Graph2 ==
    /\ pc = "graph2"
    /\ buses' = BusesLiteral
    /\ operations_multi_bus' = computeMultiBusSeries(BusesLiteral, users_per_bus)
    /\ pc' = "graph3"
    /\ UNCHANGED <<users, operations_single_bus, operations_range, spark_cost,
                   blaze_cost, table, fig2, out, env>>

\* lines 38-50
Graph3 ==
    /\ pc = "graph3"
    /\ operations_range' = OperationsRangeLiteral
    /\ spark_cost' = computeSparkCost(OperationsRangeLiteral)
    /\ blaze_cost' = computeBlazeCost(OperationsRangeLiteral)
    /\ pc' = "graph4"
    /\ UNCHANGED <<users, operations_single_bus, buses, operations_multi_bus,
                   table, fig2, out, env>>

\* lines 52-64: ax4.bar draws one bar per scenario, as high as its operations
Graph4 ==
    /\ pc = "graph4"
    /\ load_scenarios' = LoadScenariosLiteral
    /\ operations' = OperationsLiteral
    /\ colors' = ColorsLiteral
    /\ status' = StatusLiteral
    /\ bars' = OperationsLiteral
    /\ pc' = IF ZipLen3(OperationsLiteral, OperationsLiteral, StatusLiteral) = 0
             THEN "save1" ELSE "annotate4"
    /\ UNCHANGED <<ax4_texts, series, fig2, out, env>>

\* lines 67-70: one iteration of the loop over zip(bars, operations, status)
AnnotateBar ==
    /\ pc = "annotate4"
    /\ LET i == Len(ax4_texts) + 1
       IN /\ ax4_texts' = Append(ax4_texts,
                 [y |-> bars[i] + LabelOffset,
                  value |-> FormatThousands(operations[i]),
                  stat |-> status[i]])
          /\ pc' = IF i = ZipLen3(bars, operations, status)
                   THEN "save1" ELSE "annotate4"
    /\ UNCHANGED <<load_scenarios, operations, colors, status, bars,
                   series, fig2, out, env>>

\* lines 72-73
SaveFigureOne ==
    /\ pc = "save1"
    /\ LET err == SaveError(1)
       IN /\ error' = err
          /\ failedAt' = IF err = "none" THEN 0 ELSE 1
          /\ files' = IF err = "none" THEN files \cup {File1} ELSE files
          /\ pc' = AfterSave(err, "show1")
    /\ UNCHANGED <<shown, stdout, printed, series, table, fig2, env>>

\* line 74: a window in an interactive backend, nothing otherwise
ShowFigureOne ==
    /\ pc = "show1"
    /\ shown' = IF interactive THEN shown + 1 ELSE shown
    /\ pc' = "graph5"
    /\ UNCHANGED <<files, stdout, error, failedAt, printed,
                   series, table, fig2, env>>

\* lines 76-87
Graph5 ==
    /\ pc = "graph5"
    /\ operations_breakdown' = OperationsBreakdownLiteral
    /\ pc' = "graph6"
    /\ UNCHANGED <<operations_before, bars_opt, ax6_texts,
                   series, table, out, env>>

\* lines 89-99
Graph6 ==
    /\ pc = "graph6"
    /\ operations_before' = OperationsBeforeLiteral
    /\ bars_opt' = OperationsBeforeLiteral
    /\ pc' = IF ZipLen2(OperationsBeforeLiteral, OperationsBeforeLiteral) = 0
             THEN "save2" ELSE "annotate6"
    /\ UNCHANGED <<operations_breakdown, ax6_texts, series, table, out, env>>

\* lines 102-105: one iteration of the loop over zip(bars_opt, operations_before)
AnnotateOpt ==
    /\ pc = "annotate6"
    /\ LET i == Len(ax6_texts) + 1
       IN /\ ax6_texts' = Append(ax6_texts,
                 [y |-> bars_opt[i] + LabelOffsetOpt,
                  value |-> FormatThousands(operations_before[i])])
          /\ pc' = IF i = ZipLen2(bars_opt, operations_before)
                   THEN "save2" ELSE "annotate6"
    /\ UNCHANGED <<operations_breakdown, operations_before, bars_opt,
                   series, table, out, env>>

\* lines 107-108
SaveFigureTwo ==
    /\ pc = "save2"
    /\ LET err == SaveError(2)
       IN /\ error' = err
          /\ failedAt' = IF err = "none" THEN 0 ELSE 2
          /\ files' = IF err = "none" THEN files \cup {File2} ELSE files
          /\ pc' = AfterSave(err, "show2")
    /\ UNCHANGED <<shown, stdout, printed, series, table, fig2, env>>

\* line 109
ShowFigureTwo ==
    /\ pc = "show2"
    /\ shown' = IF interactive THEN shown + 1 ELSE shown
    /\ pc' = "confirm"
    /\ UNCHANGED <<files, stdout, error, failedAt, printed,
                   series, table, fig2, env>>

\* line 111
PrintConfirmation ==
    /\ pc = "confirm"
    /\ stdout' = Append(stdout, ConfirmationLine)
    /\ pc' = "header"
    /\ UNCHANGED <<files, shown, error, failedAt, printed,
                   series, table, fig2, env>>

\* line 112: "\nKey Findings:" is an empty line and the heading
PrintHeader ==
    /\ pc = "header"
    /\ stdout' = stdout \o HeaderLines
    /\ pc' = IF Len(KeyFindings) = 0 THEN "done" ELSE "findings"
    /\ UNCHANGED <<files, shown, error, failedAt, printed,
                   series, table, fig2, env>>

\* lines 113-117: the next of the findings statements
PrintFinding ==
    /\ pc = "findings"
    /\ printed' = printed + 1
    /\ stdout' = Append(stdout, KeyFindings[printed + 1])
    /\ pc' = IF printed + 1 = Len(KeyFindings) THEN "done" ELSE "findings"
    /\ UNCHANGED <<files, shown, error, failedAt, series, table, fig2, env>>

Next ==
    \/ Graph1 \/ Graph2 \/ Graph3 \/ Graph4 \/ AnnotateBar
    \/ SaveFigureOne \/ ShowFigureOne
    \/ Graph5 \/ Graph6 \/ AnnotateOpt
    \/ SaveFigureTwo \/ ShowFigureTwo
    \/ PrintConfirmation \/ PrintHeader \/ PrintFinding

Spec == Init /\ [][Next]_vars

\* the script has ended, normally or with an uncaught exception
Terminated == pc \in {"done", "failed"}

----------------------------------------------------------------------------
(* Properties *)

\* C1: once the single-bus series is computed, users is the eight-element
\* series 0, 100, 200, 500, 800, 1000, 1500, 2000, the single-bus series has
\* the same length 8, and operations_single_bus[i] = users[i]*50 + 1000 for
\* every index i.
C1_SingleBusSeries ==
    pc # "graph1" =>
        /\ users = <<0, 100, 200, 500, 800, 1000, 1500, 2000>>
        /\ Len(operations_single_bus) = 8
        /\ Len(operations_single_bus) = Len(users)
        /\ \A i \in 1..8 : operations_single_bus[i] = users[i] * 50 + 1000

C1_Witness ==
    /\ pc = "graph2"
    /\ users[6] = 1000
    /\ operations_single_bus[6] = 51000

\* C2: once the multi-bus series is computed, buses is 1..8, users_per_bus
\* is 500 and operations_multi_bus[i] = buses[i]*26000, which is
\* buses[i] * (users_per_bus*50 + 1000), for every index i.
C2_MultiBusSeries ==
    pc \notin {"graph1", "graph2"} =>
        /\ buses = <<1, 2, 3, 4, 5, 6, 7, 8>>
        /\ users_per_bus = 500
        /\ Len(operations_multi_bus) = 8
        /\ \A i \in 1..8 :
              /\ operations_multi_bus[i] = buses[i] * 26000
              /\ operations_multi_bus[i] = buses[i] * (users_per_bus * 50 + 1000)

C2_Witness ==
    /\ pc = "graph3"
    /\ buses[5] = 5
    /\ operations_multi_bus[5] = 130000

\* C3: once the cost series are computed, spark_cost is 0 for every element
\* of operations_range that is <= 50000 and infinite for every element
\* > 50000; 50000 itself is an element and costs 0; the threshold compared
\* against has the value of spark_limit.
C3_SparkCost ==
    pc \notin {"graph1", "graph2", "graph3"} =>
        /\ Len(spark_cost) = Len(operations_range)
        /\ \A i \in DOMAIN operations_range :
              /\ operations_range[i] <= 50000 => spark_cost[i] = Finite(0)
              /\ operations_range[i] > 50000 => spark_cost[i] = Infinity
        /\ \E i \in DOMAIN operations_range :
              operations_range[i] = 50000 /\ spark_cost[i] = Finite(0)
        /\ FreeThreshold = spark_limit

C3_Witness ==
    /\ pc = "graph4"
    /\ operations_range[3] = 50000 /\ spark_cost[3] = Finite(0)
    /\ operations_range[4] = 100000 /\ spark_cost[4] = Infinity

\* C4: once the cost series are computed, blaze_cost[i] is
\* max(0, (x - 50000) * 0.06 / 100000) for x = operations_range[i] (as a
\* numerator over 10^7: max(0, (x - 50000) * 6)); it is 0 for x <= 50000,
\* never negative, 0.03 for x = 100000, and non-decreasing along the
\* ascending operations_range.
C4_BlazeCost ==
    pc \notin {"graph1", "graph2", "graph3"} =>
        /\ CostDen = 10000000
        /\ Len(blaze_cost) = Len(operations_range)
        /\ \A i \in DOMAIN operations_range :
              LET x == operations_range[i]
              IN /\ blaze_cost[i] =
                        IF (x - 50000) * 6 > 0 THEN (x - 50000) * 6 ELSE 0
                 /\ x <= 50000 => blaze_cost[i] = 0
                 /\ blaze_cost[i] >= 0
                 /\ x = 100000 => blaze_cost[i] * 100 = 3 * CostDen
        /\ \E i \in DOMAIN operations_range : operations_range[i] = 100000
        /\ \A i \in 1..(Len(operations_range) - 1) :
              /\ operations_range[i] < operations_range[i + 1]
              /\ blaze_cost[i] <= blaze_cost[i + 1]

C4_Witness ==
    /\ pc = "graph4"
    /\ operations_range[1] = 10000 /\ blaze_cost[1] = 0
    /\ operations_range[4] = 100000 /\ blaze_cost[4] = 300000

\* the findings lines (lines 113-117) that stand in stdout
FindingsPrinted ==
    Cardinality({i \in DOMAIN stdout :
                    \E k \in DOMAIN KeyFindings : stdout[i] = KeyFindings[k]})

\* C5 (as stated): in every environment the script ends having written two
\* output files and printed exactly five findings lines.
C5_Original ==
    Terminated =>
        /\ files = {File1, File2}
        /\ FindingsPrinted = 5

\* C5 (amended): whenever the script has ended in an environment where the
\* output directory exists and both output files can be written, it ended
\* normally, having written two output files and printed exactly five
\* findings lines after the confirmation line and the heading; in every
\* other environment it ended with an uncaught exception.
C5_Amended ==
    Terminated =>
        IF dirExists /\ canWrite[1] /\ canWrite[2]
        THEN /\ pc = "done"
             /\ error = "none"
             /\ Cardinality(files) = 2
             /\ FindingsPrinted = 5
             /\ Len(stdout) = 8
        ELSE /\ pc = "failed"
             /\ error # "none"

C5_Witness ==
    /\ pc = "done"
    /\ dirExists /\ canWrite[1] /\ canWrite[2]
    /\ files = {File1, File2}
    /\ FindingsPrinted = 5

\* C6: a savefig that raised stops the script for good: after the first
\* save failed, the second file is not written and nothing is printed;
\* after the second save failed, nothing is printed; the confirmation line
\* stands in stdout only when both files have been written.
C6_HardStop ==
    /\ failedAt = 1 => /\ File2 \notin files
                       /\ stdout = <<>>
                       /\ pc = "failed"
    /\ failedAt = 2 => /\ stdout = <<>>
                       /\ pc = "failed"
    /\ error # "none" => failedAt \in {1, 2}
    /\ (\E i \in DOMAIN stdout :
            stdout[i] = "Scalability analysis graphs generated successfully!")
          => files = {File1, File2}

C6_Witness ==
    /\ failedAt = 2
    /\ pc = "failed"
    /\ files = {File1}
    /\ stdout = <<>>

\* C7: once finding 1 ("up to 800 users safely") is printed, 800 is an
\* element of users whose single-bus operations do not exceed spark_limit,
\* and every larger element of users exceeds spark_limit.
C7_Finding800 ==
    (\E k \in DOMAIN stdout :
        stdout[k] = "1. Single bus can handle up to 800 users safely on Spark plan")
    =>
        /\ Finding1Users = 800
        /\ \E i \in DOMAIN users :
              users[i] = 800 /\ operations_single_bus[i] <= spark_limit
        /\ \A i \in DOMAIN users :
              users[i] > 800 => operations_single_bus[i] > spark_limit
        /\ \E i \in DOMAIN users : users[i] > 800

C7_Witness ==
    /\ pc = "done"
    /\ stdout[4] = KeyFindings[1]
    /\ users[5] = 800 /\ operations_single_bus[5] = 41000
    /\ users[6] = 1000 /\ operations_single_bus[6] = 51000

\* C8: once finding 4 ("~66%") is printed, the reduction from the 'No
\* Optimization' value 150000 to the 'Current Optimization' value 51544, as
\* a percentage of the former rounded to the nearest integer, is 66.
C8_Finding66 ==
    (\E k \in DOMAIN stdout :
        stdout[k] = "4. Current optimizations reduce operations by ~66%")
    =>
        /\ Finding4Percent = 66
        /\ operations_before[1] = 150000
        /\ operations_before[2] = 51544
        /\ LET whole == operations_before[1]
               part  == operations_before[1] - operations_before[2]
           IN (200 * part + whole) \div (2 * whole) = 66

C8_Witness ==
    /\ pc = "done"
    /\ stdout[7] = KeyFindings[4]
    /\ operations_before = <<150000, 51544, 25000>>

\* C9: once the load-scenario table is set, its four lists have length 6;
\* every scenario labelled Safe is green and has operations <= spark_limit;
\* every scenario labelled Warning or Critical is orange or red and has
\* operations > spark_limit; and when the annotation loop is over it has
\* annotated all six bars, each with its own value and status.
C9_LoadTable ==
    pc \notin {"graph1", "graph2", "graph3", "graph4"} =>
        /\ Len(load_scenarios) = 6 /\ Len(operations) = 6
        /\ Len(colors) = 6 /\ Len(status) = 6 /\ Len(bars) = 6
        /\ \A i \in 1..6 :
              /\ status[i] \in {"Safe", "Warning", "Critical"}
              /\ status[i] = "Safe" <=> colors[i] = "green"
              /\ status[i] = "Safe" => operations[i] <= spark_limit
              /\ status[i] # "Safe" =>
                    /\ colors[i] \in {"orange", "red"}
                    /\ operations[i] > spark_limit
        /\ pc # "annotate4" =>
              /\ Len(ax4_texts) = 6
              /\ \A i \in 1..6 :
                    /\ ax4_texts[i].stat = status[i]
                    /\ ax4_texts[i].value = FormatThousands(operations[i])

C9_Witness ==
    /\ pc = "save1"
    /\ Len(ax4_texts) = 6
    /\ ax4_texts[3].stat = "Warning"
    /\ ax4_texts[3].value = <<51, 0>>
    /\ operations[3] = 51000

\* C10: at the end of a run the figures for '1 Bus + 1000 Users' agree on
\* its total: the sum of the five operations_breakdown values equals the
\* 'Current Optimization' value 51544, the single-bus series value at
\* users = 1000 and the '1B+1000U' load-scenario value.
C10_SameTotal ==
    pc = "done" =>
        LET total == operations_breakdown[1] + operations_breakdown[2]
                     + operations_breakdown[3] + operations_breakdown[4]
                     + operations_breakdown[5]
        IN /\ Len(operations_breakdown) = 5
           /\ total = 51544
           /\ total = operations_before[2]
           /\ users[6] = 1000 /\ total = operations_single_bus[6]
           /\ load_scenarios[3] = "1B+1000U" /\ total = operations[3]

====
